---------------------------- MODULE Spec2Model ----------------------------
(***************************************************************************)
(* Model of the contour classification programs:                           *)
(*   src/utils/proga1.py      ShapeDetector.detect                         *)
(*   src/detect_shapes.py     classify_contours                            *)
(*   src/detected_figures.py  get_color_at_point, detect_shapes_and_colors *)
(*                                                                         *)
(* A contour is a sequence of integer points <<x, y>>.  The contours of    *)
(* the model have axis-parallel edges, so that area, perimeter and every   *)
(* distance comparison of the polygon simplification are exact integer     *)
(* computations.  Areas are kept doubled (Area2 = 2 * area).               *)
(***************************************************************************)
EXTENDS Integers, Sequences, FiniteSets, TLC

\* State of a call of classify_contours (src/detect_shapes.py)
VARIABLES
    contours,               \* the contours argument
    circularity_threshold,  \* in fiftieths
    ci,                     \* position of the for loop in contours.items
    circles, rects, others, \* the buckets: positions of the input elements
    cerr,                   \* the exception raised, or "none"
    cpc                     \* "idle", "start", "loop", "done", "raised"

cvars == <<contours, circularity_threshold, ci, circles, rects, others,
           cerr, cpc>>

\* State of a call of ShapeDetector.detect (src/utils/proga1.py)
VARIABLES
    dc,     \* the contour passed to detect
    shape,  \* the verdict returned
    dpc     \* "idle", "call", "done"

dvars == <<dc, shape, dpc>>

\* State of a call of get_color_at_point (src/detected_figures.py)
VARIABLES
    hsv,           \* the image sampled
    kx, ky,        \* the point
    color_hsv_ranges, \* the table
    color,         \* the name returned
    reads,         \* the pixels read, as <<y, x>>
    kerr,          \* the exception raised, or "none"
    kpc            \* "idle", "call", "done"

kvars == <<hsv, kx, ky, color_hsv_ranges, color, reads, kerr, kpc>>

\* State of a call of detect_shapes_and_colors (src/detected_figures.py)
VARIABLES
    image,          \* cv2.imread's result as an hsv image, or NoImage (None)
    contours_list,  \* the contours argument
    shape_labels,   \* the labels argument
    ranges_arg,     \* the color_hsv_ranges argument (given, or None)
    ltable,         \* color_hsv_ranges once the default is filled in
    results,        \* the records appended so far
    li,             \* position of the for loop in the zipped pairs
    lerr,           \* the exception raised, or "none"
    lpc             \* "idle", "start", "loop", "done", "raised"

lvars == <<image, contours_list, shape_labels, ranges_arg, ltable, results,
           li, lerr, lpc>>

vars == <<cvars, dvars, kvars, lvars>>

\* ------------------------------------------------------------------------
\* Integer helpers
\* ------------------------------------------------------------------------

Abs(n) == IF n < 0 THEN -n ELSE n

Min(a, b) == IF a <= b THEN a ELSE b

\* a / b <= c / d for a, c >= 0 and b, d > 0, by comparing the continued
\* fractions: no product is formed, so large operands cannot overflow.
RECURSIVE LeFrac(_, _, _, _)
LeFrac(a, b, c, d) ==
    LET qa == a \div b
        qc == c \div d
        ra == a % b
        rc == c % d
    IN  IF qa /= qc THEN qa < qc
        ELSE IF ra = 0 THEN TRUE
        ELSE IF rc = 0 THEN FALSE
        ELSE LeFrac(d, rc, b, ra)

\* a * b <= c * d for naturals.
LeProd(a, b, c, d) ==
    IF a = 0 \/ b = 0 THEN TRUE
    ELSE IF c = 0 \/ d = 0 THEN FALSE
    ELSE LeFrac(a, c, d, b)

\* Python's int() of the quotient n / d (d > 0): truncation toward zero.
TruncDiv(n, d) == IF n >= 0 THEN n \div d ELSE -((-n) \div d)

\* ------------------------------------------------------------------------
\* Geometry primitives (the cv2 calls of the sources)
\* ------------------------------------------------------------------------

\* Point pos (0-based, cyclic) of contour c.
At(c, pos) == c[(pos % Len(c)) + 1]

\* Signed doubled area by the shoelace formula.
RECURSIVE CrossSum(_, _)
CrossSum(c, i) ==
    IF i >= Len(c) THEN 0
    ELSE LET p == At(c, i)
             q == At(c, i + 1)
         IN  (p[1] * q[2] - q[1] * p[2]) + CrossSum(c, i + 1)

\* cv2.contourArea(c), doubled: |shoelace sum|.
Area2(c) == IF Len(c) = 0 THEN 0 ELSE Abs(CrossSum(c, 0))

\* Length of an axis-parallel edge.
EdgeLen(p, q) == Abs(q[1] - p[1]) + Abs(q[2] - p[2])

RECURSIVE EdgeSum(_, _)
EdgeSum(c, i) ==
    IF i >= Len(c) THEN 0
    ELSE EdgeLen(At(c, i), At(c, i + 1)) + EdgeSum(c, i + 1)

\* cv2.arcLength(c, True): perimeter of the closed contour.
ArcLength(c) == IF Len(c) <= 1 THEN 0 ELSE EdgeSum(c, 0)

Dist2(p, q) == (q[1] - p[1]) * (q[1] - p[1]) + (q[2] - p[2]) * (q[2] - p[2])

\* |cross product| of (pt - s) with (e - s): the distance of pt from the
\* chord s-e, scaled by the chord's length.
ChordDist(s, e, pt) ==
    Abs((pt[2] - s[2]) * (e[1] - s[1]) - (pt[1] - s[1]) * (e[2] - s[2]))

SetMax(S) == CHOOSE m \in S : \A n \in S : n <= m

SetMin(S) == CHOOSE m \in S : \A n \in S : m <= n

\* One pass of the search for two far-apart points: the offset of the first
\* point farthest from point s (prev when every point coincides with it)
\* and the squared distance found.
Farthest(c, s, prev) ==
    LET n  == Len(c)
        D  == [j \in 1..(n - 1) |-> Dist2(At(c, s), At(c, s + j))]
        mx == IF n <= 1 THEN 0 ELSE SetMax({D[j] : j \in 1..(n - 1)})
    IN  [j   |-> IF mx = 0 THEN prev
                 ELSE SetMin({j \in 1..(n - 1) : D[j] = mx}),
         max |-> mx]

\* The point strictly between positions s and e (cyclically) that lies
\* farthest from the chord: [idx, max]; the first one among equals.
FarthestFromChord(c, s, e) ==
    LET n    == Len(c)
        span == (e - s + n) % n
        D    == [k \in 1..(span - 1) |->
                    ChordDist(At(c, s), At(c, e), At(c, s + k))]
        mx   == IF span <= 1 THEN 0 ELSE SetMax({D[k] : k \in 1..(span - 1)})
    IN  [idx |-> IF mx = 0 THEN s
                 ELSE (s + SetMin({k \in 1..(span - 1) : D[k] = mx})) % n,
         max |-> mx]

\* dist <= eps * |chord| with eps = 0.04 * peri, i.e.
\* 625 * dist^2 <= peri^2 * len2.
WithinEps(dist, peri, len2) == LeProd(25 * dist, 25 * dist, peri, peri * len2)

\* The Douglas-Peucker recursion on the slice s..e: the start points of the
\* slices that need no further split, in contour order.
RECURSIVE Simplify(_, _, _, _)
Simplify(c, peri, s, e) ==
    LET n == Len(c)
        f == FarthestFromChord(c, s, e)
    IN  IF (s + 1) % n = e % n
           \/ WithinEps(f.max, peri, Dist2(At(c, s), At(c, e)))
        THEN << At(c, s) >>
        ELSE Simplify(c, peri, s, f.idx) \o Simplify(c, peri, f.idx, e)

\* dist^2 <= 0.5 * eps^2 * len2, the test of the final clean-up pass.
NearlyStraight(dist, peri, len2) ==
    LeProd(50 * dist, 25 * dist, peri, peri * len2)

\* The final clean-up pass over the simplified closed polygon dst: a point
\* that lies nearly on the (oblique) line between its neighbours is dropped.
\* st is the loop state [dst, start, pt, pos, wpos, i, cnt].
RECURSIVE CleanUp(_, _, _)
CleanUp(st, count, peri) ==
    IF ~(st.i < count /\ st.cnt > 2) THEN st
    ELSE
      LET endp == st.dst[st.pos + 1]
          pos1 == (st.pos + 1) % count
          dx   == endp[1] - st.start[1]
          dy   == endp[2] - st.start[2]
          dist == Abs((st.pt[1] - st.start[1]) * dy
                      - (st.pt[2] - st.start[2]) * dx)
          sip  == (st.pt[1] - st.start[1]) * (endp[1] - st.pt[1])
                  + (st.pt[2] - st.start[2]) * (endp[2] - st.pt[2])
      IN  IF NearlyStraight(dist, peri, dx * dx + dy * dy)
             /\ dx /= 0 /\ dy /= 0 /\ sip >= 0
          THEN CleanUp([dst   |-> [st.dst EXCEPT ![st.wpos + 1] = endp],
                        start |-> endp,
                        pt    |-> st.dst[pos1 + 1],
                        pos   |-> (pos1 + 1) % count,
                        wpos  |-> (st.wpos + 1) % count,
                        i     |-> st.i + 2,
                        cnt   |-> st.cnt - 1], count, peri)
          ELSE CleanUp([dst   |-> [st.dst EXCEPT ![st.wpos + 1] = st.pt],
                        start |-> st.pt,
                        pt    |-> endp,
                        pos   |-> pos1,
                        wpos  |-> (st.wpos + 1) % count,
                        i     |-> st.i + 1,
                        cnt   |-> st.cnt], count, peri)

\* The polygon left by the clean-up pass.
CleanPoly(dst, peri) ==
    LET count == Len(dst)
    IN  IF count <= 2 THEN dst
        ELSE LET st == CleanUp([dst   |-> dst,
                                start |-> dst[count],
                                pt    |-> dst[1],
                                pos   |-> 1 % count,
                                wpos  |-> 0,
                                i     |-> 0,
                                cnt   |-> count], count, peri)
             IN  SubSeq(st.dst, 1, st.cnt)

\* cv2.approxPolyDP(c, 0.04 * peri, True): the simplified closed polygon.
ApproxPolyDP(c, peri) ==
    LET n  == Len(c)
        f0 == Farthest(c, 0, 0)
        s1 == f0.j % n
        f1 == Farthest(c, s1, f0.j)
        s2 == (s1 + f1.j) % n
        f2 == Farthest(c, s2, f1.j)
        e  == (s2 + f2.j) % n
    IN  IF n = 0 THEN << >>
        ELSE IF 625 * f2.max <= peri * peri THEN << At(c, s2) >>
        ELSE CleanPoly(Simplify(c, peri, s2, e) \o Simplify(c, peri, e, s2),
                       peri)

Xs(c) == {c[i][1] : i \in 1..Len(c)}

Ys(c) == {c[i][2] : i \in 1..Len(c)}

\* cv2.boundingRect: <<x, y, w, h>> of the upright box of integer points;
\* w and h count the pixel columns and rows covered (both ends included).
BoundingRectM(c) ==
    << SetMin(Xs(c)), SetMin(Ys(c)),
       SetMax(Xs(c)) - SetMin(Xs(c)), SetMax(Ys(c)) - SetMin(Ys(c)) >>

BoundingRect(c) ==
    << SetMin(Xs(c)), SetMin(Ys(c)),
       SetMax(Xs(c)) - SetMin(Xs(c)) + 1, SetMax(Ys(c)) - SetMin(Ys(c)) + 1 >>

\* ------------------------------------------------------------------------
\* ShapeDetector.detect (src/utils/proga1.py)
\* ------------------------------------------------------------------------

Kvadrat == "kvadrat"              \* 'квадрат'
Pryamougolnik == "pryamougolnik"  \* 'прямоугольник'
Neopoznannaya == "neopoznannaya"  \* 'неопознанная'

\* ar >= 0.95 and ar <= 1.05 for ar = w / float(h).
IsSquareRatio(w, h) == 100 * w >= 95 * h /\ 100 * w <= 105 * h

Detect(c) ==
    LET peri   == ArcLength(c)
        approx == ApproxPolyDP(c, peri)
    IN  IF Len(approx) = 4
        THEN LET r == BoundingRect(approx)
             IN  IF IsSquareRatio(r[3], r[4]) THEN Kvadrat ELSE Pryamougolnik
        ELSE Neopoznannaya

\* ------------------------------------------------------------------------
\* Contours of the model
\* ------------------------------------------------------------------------

\* Upright rectangle with corner (x, y), width w and height h.
Rect(x, y, w, h) ==
    << <<x, y>>, <<x + w, y>>, <<x + w, y + h>>, <<x, y + h>> >>

\* The same rectangle traversed in the opposite direction.
RectRev(x, y, w, h) ==
    << <<x, y>>, <<x, y + h>>, <<x + w, y + h>>, <<x + w, y>> >>

\* Square of side s with a notch cut into its top side between x = a and
\* x = b, d deep.
Notched(s, a, b, d) ==
    << <<0, 0>>, <<s, 0>>, <<s, s>>, <<b, s>>,
       <<b, s - d>>, <<a, s - d>>, <<a, s>>, <<0, s>> >>

Sq100 == Rect(0, 0, 100, 100)        \* area 10000, perimeter 400
Rect40x20 == Rect(5, 5, 40, 20)
NotchWide == Notched(20, 5, 15, 2)   \* fills exactly 0.95 of its box
NotchDeep == Notched(20, 5, 15, 8)   \* keeps 8 vertices when simplified
PointC == << <<3, 3>> >>             \* area 0, perimeter 0
SegmentC == << <<0, 0>>, <<5, 0>> >> \* area 0, perimeter 10

\* An element of the input list: a numpy array holding a contour, or
\* anything else (None, a Python list, ...).
ArrayElem(pts) == [isArray |-> TRUE, pts |-> pts]

NoneElem == [isArray |-> FALSE, pts |-> << >>]

Elements ==
    {ArrayElem(c) : c \in {Sq100, Rect40x20, NotchWide, NotchDeep,
                           PointC, SegmentC}} \cup {NoneElem}

\* Longest input list.
MaxLen == 3

SeqUpTo(S, n) == UNION {[1..k -> S] : k \in 0..n}

\* The contours argument: its Python type and, for a sequence, its items.
ContourArgs ==
    {[type |-> t, items |-> s] :
        t \in {"list", "tuple"}, s \in SeqUpTo(Elements, MaxLen)}
    \cup {[type |-> t, items |-> s] :
        t \in {"str", "ndarray", "NoneType"}, s \in SeqUpTo({NoneElem}, 1)}

\* circularity_threshold in fiftieths: 0.7, 0.8 (the default), 0.82 (main).
Thresholds == {35, 40, 41}

\* ------------------------------------------------------------------------
\* classify_contours (src/detect_shapes.py)
\* ------------------------------------------------------------------------

\* isinstance(contours, (list, tuple))
IsSequenceM(t) == t = "list"

IsSequence(t) == t \in {"list", "tuple"}

\* perimeter <= 0 or area <= 0
Degenerate(area2, peri) == peri <= 0 \/ area2 <= 0

\* circularity = 4 * pi * area / perimeter^2 > t / 50, i.e.
\* 100 * pi * area2 > t * peri^2, with pi taken as 355/113.
Circular(area2, peri, t) == ~LeProd(35500, area2, 113 * t, peri * peri)

\* np.intp(cv2.boxPoints(cv2.minAreaRect(c))) for a contour whose convex
\* hull is an upright rectangle: the corners of that rectangle.
BoxPoints(c) ==
    Rect(SetMin(Xs(c)), SetMin(Ys(c)),
         SetMax(Xs(c)) - SetMin(Xs(c)), SetMax(Ys(c)) - SetMin(Ys(c)))

\* box_area > 0 and area / box_area > 0.95
FillOkM(area2, box2) == box2 > 0 /\ 100 * area2 >= 95 * box2

FillOk(area2, box2) == box2 > 0 /\ 100 * area2 > 95 * box2

\* bucket.append(cnt)
AppendToM(bucket, i) == <<i>> \o bucket

AppendTo(bucket, i) == Append(bucket, i)

\* The loop position after a degenerate contour was put in others
\* (continue): the next element.
AfterDegenerateM(i, n) == n + 1

AfterDegenerate(i, n) == i + 1

IdleClassify ==
    /\ contours = [type |-> "list", items |-> << >>]
    /\ circularity_threshold = 40
    /\ ci = 0
    /\ circles = << >> /\ rects = << >> /\ others = << >>
    /\ cerr = "none"
    /\ cpc = "idle"

InitClassify ==
    /\ contours \in ContourArgs
    /\ circularity_threshold \in Thresholds
    /\ ci = 0
    /\ circles = << >> /\ rects = << >> /\ others = << >>
    /\ cerr = "none"
    /\ cpc = "start"

RaiseTypeError ==
    /\ cpc = "start"
    /\ ~IsSequence(contours.type)
    /\ cerr' = "TypeError"
    /\ cpc' = "raised"
    /\ UNCHANGED <<contours, circularity_threshold, ci, circles, rects, others>>
    /\ UNCHANGED <<dvars, kvars, lvars>>

RaiseValueError ==
    /\ cpc = "start"
    /\ IsSequence(contours.type)
    /\ Len(contours.items) = 0
    /\ cerr' = "ValueError"
    /\ cpc' = "raised"
    /\ UNCHANGED <<contours, circularity_threshold, ci, circles, rects, others>>
    /\ UNCHANGED <<dvars, kvars, lvars>>

EnterLoop ==
    /\ cpc = "start"
    /\ IsSequence(contours.type)
    /\ Len(contours.items) /= 0
    /\ circles' = << >> /\ rects' = << >> /\ others' = << >>
    /\ ci' = 1
    /\ cpc' = "loop"
    /\ UNCHANGED <<contours, circularity_threshold, cerr>>
    /\ UNCHANGED <<dvars, kvars, lvars>>

InLoop == cpc = "loop" /\ ci <= Len(contours.items)

Cnt == contours.items[ci]

SkipInvalid ==
    /\ InLoop
    /\ ~Cnt.isArray
    /\ ci' = ci + 1
    /\ UNCHANGED <<contours, circularity_threshold, circles, rects, others,
                   cerr, cpc>>
    /\ UNCHANGED <<dvars, kvars, lvars>>

AppendDegenerate ==
    /\ InLoop
    /\ Cnt.isArray
    /\ Degenerate(Area2(Cnt.pts), ArcLength(Cnt.pts))
    /\ others' = AppendTo(others, ci)
    /\ ci' = AfterDegenerate(ci, Len(contours.items))
    /\ UNCHANGED <<contours, circularity_threshold, circles, rects, cerr, cpc>>
    /\ UNCHANGED <<dvars, kvars, lvars>>

AppendCircle ==
    /\ InLoop
    /\ Cnt.isArray
    /\ ~Degenerate(Area2(Cnt.pts), ArcLength(Cnt.pts))
    /\ Circular(Area2(Cnt.pts), ArcLength(Cnt.pts), circularity_threshold)
    /\ circles' = AppendTo(circles, ci)
    /\ ci' = ci + 1
    /\ UNCHANGED <<contours, circularity_threshold, rects, others, cerr, cpc>>
    /\ UNCHANGED <<dvars, kvars, lvars>>

AppendRect ==
    /\ InLoop
    /\ Cnt.isArray
    /\ ~Degenerate(Area2(Cnt.pts), ArcLength(Cnt.pts))
    /\ ~Circular(Area2(Cnt.pts), ArcLength(Cnt.pts), circularity_threshold)
    /\ Detect(Cnt.pts) \in {Pryamougolnik, Kvadrat}
    /\ FillOk(Area2(Cnt.pts), Area2(BoxPoints(Cnt.pts)))
    /\ rects' = AppendTo(rects, ci)
    /\ ci' = ci + 1
    /\ UNCHANGED <<contours, circularity_threshold, circles, others, cerr, cpc>>
    /\ UNCHANGED <<dvars, kvars, lvars>>

DemoteRect ==
    /\ InLoop
    /\ Cnt.isArray
    /\ ~Degenerate(Area2(Cnt.pts), ArcLength(Cnt.pts))
    /\ ~Circular(Area2(Cnt.pts), ArcLength(Cnt.pts), circularity_threshold)
    /\ Detect(Cnt.pts) \in {Pryamougolnik, Kvadrat}
    /\ ~FillOk(Area2(Cnt.pts), Area2(BoxPoints(Cnt.pts)))
    /\ others' = AppendTo(others, ci)
    /\ ci' = ci + 1
    /\ UNCHANGED <<contours, circularity_threshold, circles, rects, cerr, cpc>>
    /\ UNCHANGED <<dvars, kvars, lvars>>

AppendOther ==
    /\ InLoop
    /\ Cnt.isArray
    /\ ~Degenerate(Area2(Cnt.pts), ArcLength(Cnt.pts))
    /\ ~Circular(Area2(Cnt.pts), ArcLength(Cnt.pts), circularity_threshold)
    /\ Detect(Cnt.pts) \notin {Pryamougolnik, Kvadrat}
    /\ others' = AppendTo(others, ci)
    /\ ci' = ci + 1
    /\ UNCHANGED <<contours, circularity_threshold, circles, rects, cerr, cpc>>
    /\ UNCHANGED <<dvars, kvars, lvars>>

ReturnBuckets ==
    /\ cpc = "loop"
    /\ ci > Len(contours.items)
    /\ cpc' = "done"
    /\ UNCHANGED <<contours, circularity_threshold, ci, circles, rects, others,
                   cerr>>
    /\ UNCHANGED <<dvars, kvars, lvars>>

\* ------------------------------------------------------------------------
\* A call of ShapeDetector.detect
\* ------------------------------------------------------------------------

\* Longest side of the rectangles passed to detect.
MaxSide == 24

DetectArgs ==
    {Rect(0, 0, w, h) : w \in 1..MaxSide, h \in 1..MaxSide}
    \cup {RectRev(2, 3, w, h) : w \in 1..MaxSide, h \in 1..MaxSide}

IdleDetect == dc = << >> /\ shape = "" /\ dpc = "idle"

InitDetect == dc \in DetectArgs /\ shape = "" /\ dpc = "call"

DetectCall ==
    /\ dpc = "call"
    /\ shape' = Detect(dc)
    /\ dpc' = "done"
    /\ UNCHANGED dc
    /\ UNCHANGED <<cvars, kvars, lvars>>

\* ------------------------------------------------------------------------
\* Images and colour tables (src/detected_figures.py)
\* ------------------------------------------------------------------------

\* HSV pixels <<h, s, v>> the images are made of.
Palette ==
    << <<0, 50, 50>>,       \* lower corner of red's first interval
       <<35, 100, 100>>,    \* in green and in yellow
       <<10, 255, 255>>,    \* upper corner of red's first interval
       <<11, 100, 100>>,    \* in no interval
       <<30, 100, 100>>,    \* yellow
       <<170, 100, 100>>,   \* red's second interval
       <<100, 49, 100>>,    \* blue's hue, saturation too low
       <<120, 100, 100>> >> \* blue

\* The hsv image of width w and height h whose pixel (x, y) is entry
\* x + y + seed of the palette (cyclically).  px is indexed <<y, x>>.
MakeImage(w, h, seed) ==
    [w  |-> w,
     h  |-> h,
     px |-> [p \in (0..(h - 1)) \X (0..(w - 1)) |->
                Palette[((p[1] + p[2] + seed) % Len(Palette)) + 1]]]

NoImage == [w |-> 0, h |-> 0, px |-> << >>]

\* color_hsv_ranges: entries in insertion order; an entry's ranges is one
\* pair <<lower, upper>>, or (isList) a list of such pairs.
Single(name, lower, upper) ==
    [name |-> name, isList |-> FALSE, ranges |-> <<lower, upper>>]

Several(name, pairs) == [name |-> name, isList |-> TRUE, ranges |-> pairs]

DefaultRanges ==
    << Several("red", << << <<0, 50, 50>>, <<10, 255, 255>> >>,
                         << <<160, 50, 50>>, <<180, 255, 255>> >> >>),
       Single("green", <<35, 50, 50>>, <<85, 255, 255>>),
       Single("blue", <<100, 50, 50>>, <<130, 255, 255>>),
       Single("yellow", <<20, 50, 50>>, <<35, 255, 255>>) >>

\* A caller's table in which the overlapping entries come in the other
\* order, and one with a single list entry.
YellowFirstRanges ==
    << Single("yellow", <<20, 50, 50>>, <<35, 255, 255>>),
       Single("green", <<35, 50, 50>>, <<85, 255, 255>>),
       Several("warm", << << <<0, 50, 50>>, <<35, 255, 255>> >> >>) >>

NoRanges == << >>

\* lower <= pixel <= upper in every channel: cv2.inRange(...) == 255.
InRangeM(pixel, lower, upper) ==
    \A ch \in 1..3 : lower[ch] <= pixel[ch] /\ pixel[ch] < upper[ch]

InRange(pixel, lower, upper) ==
    \A ch \in 1..3 : lower[ch] <= pixel[ch] /\ pixel[ch] <= upper[ch]

\* Whether the loop body returns color_name for this entry.
EntryMatches(pixel, entry) ==
    IF entry.isList
    THEN \E k \in 1..Len(entry.ranges) :
            InRange(pixel, entry.ranges[k][1], entry.ranges[k][2])
    ELSE InRange(pixel, entry.ranges[1], entry.ranges[2])

\* The for loop over color_ranges.items() from entry k on.
RECURSIVE ScanRanges(_, _, _)
ScanRanges(pixel, color_ranges, k) ==
    IF k > Len(color_ranges) THEN "unknown"
    ELSE IF EntryMatches(pixel, color_ranges[k]) THEN color_ranges[k].name
    ELSE ScanRanges(pixel, color_ranges, k + 1)

\* x < 0 or y < 0 or x >= shape[1] or y >= shape[0]
OutOfBoundsM(x, y, w, h) == x < 0 \/ y < 0 \/ x > w \/ y > h

OutOfBounds(x, y, w, h) == x < 0 \/ y < 0 \/ x >= w \/ y >= h

\* hsv_img[y, x] by numpy's indexing: a negative index counts from the
\* end, an index past either end raises IndexError.
HsvAt(img, x, y) ==
    IF -img.w <= x /\ x < img.w /\ -img.h <= y /\ y < img.h
    THEN [err |-> "none", at |-> <<y % img.h, x % img.w>>,
          pixel |-> img.px[<<y % img.h, x % img.w>>]]
    ELSE [err |-> "IndexError", at |-> <<y, x>>, pixel |-> <<0, 0, 0>>]

\* get_color_at_point: the colour returned, the pixels read, the exception.
GetColorAtPoint(hsv_img, x, y, color_ranges) ==
    IF OutOfBounds(x, y, hsv_img.w, hsv_img.h)
    THEN [color |-> "unknown", reads |-> {}, err |-> "none"]
    ELSE LET r == HsvAt(hsv_img, x, y)
         IN  IF r.err /= "none"
             THEN [color |-> "", reads |-> {}, err |-> r.err]
             ELSE [color |-> ScanRanges(r.pixel, color_ranges, 1),
                   reads |-> {r.at}, err |-> "none"]

\* ------------------------------------------------------------------------
\* A call of get_color_at_point
\* ------------------------------------------------------------------------

\* Largest width and height of the images sampled directly.
MaxDim == 2

ColorImages ==
    {MakeImage(w, h, seed) :
        w \in 1..MaxDim, h \in 1..MaxDim, seed \in 0..(Len(Palette) - 1)}

RangeTables == {DefaultRanges, YellowFirstRanges, NoRanges}

IdleColor ==
    /\ hsv = NoImage /\ kx = 0 /\ ky = 0 /\ color_hsv_ranges = NoRanges
    /\ color = "" /\ reads = {} /\ kerr = "none" /\ kpc = "idle"

InitColor ==
    /\ hsv \in ColorImages
    /\ kx \in -1..MaxDim /\ ky \in -1..MaxDim
    /\ color_hsv_ranges \in RangeTables
    /\ color = "" /\ reads = {} /\ kerr = "none" /\ kpc = "call"

ColorCall ==
    /\ kpc = "call"
    /\ LET r == GetColorAtPoint(hsv, kx, ky, color_hsv_ranges)
       IN  color' = r.color /\ reads' = r.reads /\ kerr' = r.err
    /\ kpc' = "done"
    /\ UNCHANGED <<hsv, kx, ky, color_hsv_ranges>>
    /\ UNCHANGED <<cvars, dvars, lvars>>

\* ------------------------------------------------------------------------
\* detect_shapes_and_colors (src/detected_figures.py)
\* ------------------------------------------------------------------------

\* Contours passed to the labeler.
LIn == Rect(0, 0, 10, 10)      \* area 100, centroid (5, 5)
LSmall == Rect(0, 0, 9, 11)    \* area 99
LNeg == Rect(-6, 0, 11, 10)    \* area 110, centroid (-0.5, 5)
LOut == Rect(20, 20, 10, 10)   \* area 100, centroid (25, 25)

LabelContours == {LIn, LSmall, LNeg, LOut, PointC}

ShapeLabels == {"circle", "other"}

\* Longest contours_list and shape_labels.
MaxPairs == 2

LabelImages ==
    {NoImage, MakeImage(1, 1, 0), MakeImage(8, 8, 0), MakeImage(8, 8, 1)}

RangeArgs ==
    {[given |-> FALSE, table |-> NoRanges],
     [given |-> TRUE, table |-> YellowFirstRanges]}

\* Number of pairs zip(contours_list, shape_labels) yields.
ZipLenM(cs, ls) ==
    IF Min(Len(cs), Len(ls)) > 0 THEN Min(Len(cs), Len(ls)) - 1 ELSE 0

ZipLen(cs, ls) == Min(Len(cs), Len(ls))

\* area < 100
SmallAreaM(area2) == area2 <= 200

SmallArea(area2) == area2 < 200

\* Sum over the edges of (u_i + u_(i+1)) * cross_i for coordinate k: six
\* times the signed first moment.
RECURSIVE MomentSum(_, _, _)
MomentSum(c, k, i) ==
    IF i >= Len(c) THEN 0
    ELSE LET p == At(c, i)
             q == At(c, i + 1)
         IN  (p[k] + q[k]) * (p[1] * q[2] - q[1] * p[2])
             + MomentSum(c, k, i + 1)

\* M["m00"], doubled (cv2.moments gives the contour's unsigned area).
M00x2(c) == IF Len(c) = 0 THEN 0 ELSE Abs(CrossSum(c, 0))

\* Numerator of M["m10"] / M["m00"] (k = 1) and of M["m01"] / M["m00"]
\* (k = 2) over the denominator CentroidDen.
CentroidNum(c, k) ==
    IF CrossSum(c, 0) >= 0 THEN MomentSum(c, k, 0) ELSE -MomentSum(c, k, 0)

CentroidDen(c) == 3 * Abs(CrossSum(c, 0))

\* cx = int(M["m10"] / M["m00"]), cy = int(M["m01"] / M["m00"])
CentroidX(c) == TruncDiv(CentroidNum(c, 1), CentroidDen(c))

CentroidY(c) == TruncDiv(CentroidNum(c, 2), CentroidDen(c))

\* cx < 0 or cy < 0 or cx >= image.shape[1] or cy >= image.shape[0]
CentroidOutside(cx, cy, w, h) == cx < 0 \/ cy < 0 \/ cx >= w \/ cy >= h

Record(pos, contour, label, col) ==
    [pos |-> pos, contour |-> contour, shape |-> label, color |-> col]

IdleLabel ==
    /\ image = NoImage /\ contours_list = << >> /\ shape_labels = << >>
    /\ ranges_arg = [given |-> FALSE, table |-> NoRanges]
    /\ ltable = NoRanges /\ results = << >> /\ li = 0
    /\ lerr = "none" /\ lpc = "idle"

InitLabel ==
    /\ image \in LabelImages
    /\ contours_list \in SeqUpTo(LabelContours, MaxPairs)
    /\ shape_labels \in SeqUpTo(ShapeLabels, MaxPairs)
    /\ ranges_arg \in RangeArgs
    /\ ltable = NoRanges /\ results = << >> /\ li = 0
    /\ lerr = "none" /\ lpc = "start"

LoadFail ==
    /\ lpc = "start"
    /\ image = NoImage
    /\ lerr' = "FileNotFoundError"
    /\ lpc' = "raised"
    /\ UNCHANGED <<image, contours_list, shape_labels, ranges_arg, ltable,
                   results, li>>
    /\ UNCHANGED <<cvars, dvars, kvars>>

LoadOk ==
    /\ lpc = "start"
    /\ image /= NoImage
    /\ ltable' = IF ranges_arg.given THEN ranges_arg.table ELSE DefaultRanges
    /\ results' = << >>
    /\ li' = 1
    /\ lpc' = "loop"
    /\ UNCHANGED <<image, contours_list, shape_labels, ranges_arg, lerr>>
    /\ UNCHANGED <<cvars, dvars, kvars>>

InPairs == lpc = "loop" /\ li <= ZipLen(contours_list, shape_labels)

Contour == contours_list[li]

\* The loop body appends nothing: area < 100, or M["m00"] == 0.
NoRecord(c) == IF SmallArea(Area2(c)) THEN TRUE ELSE M00x2(c) = 0

SkipContour ==
    /\ InPairs
    /\ NoRecord(Contour)
    /\ li' = li + 1
    /\ UNCHANGED <<image, contours_list, shape_labels, ranges_arg, ltable,
                   results, lerr, lpc>>
    /\ UNCHANGED <<cvars, dvars, kvars>>

EmitUnknown ==
    /\ InPairs
    /\ ~NoRecord(Contour)
    /\ CentroidOutside(CentroidX(Contour), CentroidY(Contour),
                       image.w, image.h)
    /\ results' = Append(results,
                         Record(li, Contour, shape_labels[li], "unknown"))
    /\ li' = li + 1
    /\ UNCHANGED <<image, contours_list, shape_labels, ranges_arg, ltable,
                   lerr, lpc>>
    /\ UNCHANGED <<cvars, dvars, kvars>>

EmitSampled ==
    /\ InPairs
    /\ ~NoRecord(Contour)
    /\ ~CentroidOutside(CentroidX(Contour), CentroidY(Contour),
                        image.w, image.h)
    /\ LET r == GetColorAtPoint(image, CentroidX(Contour),
                                CentroidY(Contour), ltable)
       IN  IF r.err = "none"
           THEN /\ results' = Append(results,
                       Record(li, Contour, shape_labels[li], r.color))
                /\ li' = li + 1
                /\ UNCHANGED <<lerr, lpc>>
           ELSE /\ lerr' = r.err
                /\ lpc' = "raised"
                /\ UNCHANGED <<results, li>>
    /\ UNCHANGED <<image, contours_list, shape_labels, ranges_arg, ltable>>
    /\ UNCHANGED <<cvars, dvars, kvars>>

ReturnResults ==
    /\ lpc = "loop"
    /\ li > ZipLen(contours_list, shape_labels)
    /\ lpc' = "done"
    /\ UNCHANGED <<image, contours_list, shape_labels, ranges_arg, ltable,
                   results, li, lerr>>
    /\ UNCHANGED <<cvars, dvars, kvars>>

\* ------------------------------------------------------------------------
\* Specifications
\* ------------------------------------------------------------------------

\* One call of classify_contours.
Init == InitClassify /\ IdleDetect /\ IdleColor /\ IdleLabel

Next ==
    \/ RaiseTypeError
    \/ RaiseValueError
    \/ EnterLoop
    \/ SkipInvalid
    \/ AppendDegenerate
    \/ AppendCircle
    \/ AppendRect
    \/ DemoteRect
    \/ AppendOther
    \/ ReturnBuckets

Spec == Init /\ [][Next]_vars

\* One call of ShapeDetector.detect.
InitD == IdleClassify /\ InitDetect /\ IdleColor /\ IdleLabel

NextD == DetectCall

SpecDetect == InitD /\ [][NextD]_vars

\* One call of get_color_at_point, or one of detect_shapes_and_colors.
InitF ==
    /\ IdleClassify /\ IdleDetect
    /\ \/ InitColor /\ IdleLabel
       \/ IdleColor /\ InitLabel

NextF ==
    \/ ColorCall
    \/ LoadFail
    \/ LoadOk
    \/ SkipContour
    \/ EmitUnknown
    \/ EmitSampled
    \/ ReturnResults

SpecFigures == InitF /\ [][NextF]_vars

\* ------------------------------------------------------------------------
\* Properties of classify_contours (checked under Spec)
\* ------------------------------------------------------------------------

Items == contours.items

\* Positions held by a bucket, and how often position i occurs in it.
Positions(bucket) == {bucket[j] : j \in 1..Len(bucket)}

Occurrences(bucket, i) == Cardinality({j \in 1..Len(bucket) : bucket[j] = i})

Increasing(bucket) ==
    \A j \in 1..Len(bucket) : \A k \in 1..Len(bucket) :
        j < k => bucket[j] < bucket[k]

IsDegenerate(e) == e.isArray /\ (ArcLength(e.pts) <= 0 \/ Area2(e.pts) <= 0)

\* The reference decision for a non-degenerate contour: circles iff the
\* circularity exceeds the threshold; otherwise rects iff the detector says
\* square or rectangle and the contour fills more than 0.95 of a box of
\* positive area; otherwise others.
RefBucket(pts, t) ==
    IF 35500 * Area2(pts) > 113 * t * ArcLength(pts) * ArcLength(pts)
    THEN "circles"
    ELSE IF /\ Detect(pts) \in {Kvadrat, Pryamougolnik}
            /\ Area2(BoxPoints(pts)) > 0
            /\ 100 * Area2(pts) > 95 * Area2(BoxPoints(pts))
         THEN "rects"
         ELSE "others"

\* The bucket expected for an input element ("none" for a non-array).
Expected(e, t) ==
    IF ~e.isArray THEN "none"
    ELSE IF IsDegenerate(e) THEN "others"
    ELSE RefBucket(e.pts, t)

\* The contours a bucket of positions holds, in the bucket's order.
Held(bucket) == [j \in 1..Len(bucket) |-> Items[bucket[j]].pts]

\* The contours of items expected in bucket b, in input order.
RECURSIVE ExpectedIn(_, _, _)
ExpectedIn(items, t, b) ==
    IF Len(items) = 0 THEN << >>
    ELSE (IF Expected(Head(items), t) = b THEN << Head(items).pts >>
          ELSE << >>) \o ExpectedIn(Tail(items), t, b)

\* items without position k; a bucket without position k.
Without(items, k) == SubSeq(items, 1, k - 1) \o SubSeq(items, k + 1, Len(items))

RECURSIVE Dropping(_, _)
Dropping(bucket, k) ==
    IF Len(bucket) = 0 THEN << >>
    ELSE (IF Head(bucket) = k THEN << >> ELSE << Head(bucket) >>)
         \o Dropping(Tail(bucket), k)

\* C1: an argument that is not a list or tuple raises TypeError and an
\* empty list or tuple raises ValueError, in both cases before the loop is
\* entered and without any bucket being filled or returned; nothing else
\* raises.
C1_RejectsBadContainers ==
    /\ (contours.type \notin {"list", "tuple"} /\ cpc /= "start")
          => /\ cpc = "raised" /\ cerr = "TypeError"
             /\ ci = 0 /\ circles = << >> /\ rects = << >> /\ others = << >>
    /\ (contours.type \in {"list", "tuple"} /\ Items = << >> /\ cpc /= "start")
          => /\ cpc = "raised" /\ cerr = "ValueError"
             /\ ci = 0 /\ circles = << >> /\ rects = << >> /\ others = << >>
    /\ (contours.type \in {"list", "tuple"} /\ Items /= << >>)
          => cpc /= "raised" /\ cerr = "none"

C1_Witness ==
    cpc = "raised" /\ cerr = "TypeError" /\ contours.type = "str"

C3_DegenerateToOthers ==
    cpc = "done" =>
        \A k \in 1..Len(Items) :
            IsDegenerate(Items[k]) =>
                /\ cerr = "none"
                /\ Occurrences(others, k) = 1
                /\ k \notin Positions(circles) \cup Positions(rects)
                /\ Held(circles)
                     = ExpectedIn(Without(Items, k), circularity_threshold,
                                  "circles")
                /\ Held(rects)
                     = ExpectedIn(Without(Items, k), circularity_threshold,
                                  "rects")
                /\ Held(Dropping(others, k))
                     = ExpectedIn(Without(Items, k), circularity_threshold,
                                  "others")

C3_Witness ==
    /\ cpc = "done"
    /\ Len(Items) = 3
    /\ Items[1] = ArrayElem(SegmentC)
    /\ Items[2] = ArrayElem(PointC)
    /\ Items[3] = ArrayElem(Sq100)
    /\ others = <<1, 2>>
    /\ rects = <<3>>

\* C8 (as documented): the call raises when the list holds an invalid
\* element or no valid contour, so it never returns for such a list.
C8_RaisesOnInvalidElements ==
    cpc = "done" => \A i \in 1..Len(Items) : Items[i].isArray

\* C9: when classify_contours returns, every non-degenerate contour is in
\* the bucket the reference decision names, for every threshold.
C9_ReferenceDecision ==
    cpc = "done" =>
        \A i \in 1..Len(Items) :
            (Items[i].isArray /\ ~IsDegenerate(Items[i])) =>
                LET b == RefBucket(Items[i].pts, circularity_threshold)
                IN  /\ (b = "circles") = (i \in Positions(circles))
                    /\ (b = "rects") = (i \in Positions(rects))
                    /\ (b = "others") = (i \in Positions(others))

\* The 100 x 100 square with threshold 0.82 ends in rects.
C9_Witness ==
    /\ cpc = "done"
    /\ circularity_threshold = 41
    /\ Items = << ArrayElem(Sq100) >>
    /\ Area2(Sq100) = 20000 /\ ArcLength(Sq100) = 400
    /\ Detect(Sq100) = Kvadrat
    /\ rects = <<1>> /\ circles = << >> /\ others = << >>

\* ------------------------------------------------------------------------
\* Properties of ShapeDetector.detect (checked under SpecDetect)
\* ------------------------------------------------------------------------

Width(c) == SetMax(Xs(c)) - SetMin(Xs(c))

Height(c) == SetMax(Ys(c)) - SetMin(Ys(c))

\* One side is more than 1.05 times the other.
Stretched(w, h) == 20 * w > 21 * h \/ 20 * h > 21 * w

Closed(pixel, pair) ==
    \A ch \in 1..3 : pair[1][ch] <= pixel[ch] /\ pixel[ch] <= pair[2][ch]

Matching(pixel, table) ==
    {k \in 1..Len(table) :
        IF table[k].isList
        THEN \E j \in 1..Len(table[k].ranges) : Closed(pixel, table[k].ranges[j])
        ELSE Closed(pixel, table[k].ranges)}

InBounds(x, y, img) == 0 <= x /\ x < img.w /\ 0 <= y /\ y < img.h

\* C4: for an in-bounds point get_color_at_point returns the name of the
\* first entry, in insertion order, that the pixel at the point matches,
\* and 'unknown' when no entry matches.
C4_FirstMatchWins ==
    (kpc = "done" /\ InBounds(kx, ky, hsv)) =>
        LET m == Matching(hsv.px[<<ky, kx>>], color_hsv_ranges)
        IN  /\ kerr = "none"
            /\ reads = {<<ky, kx>>}
            /\ color = IF m = {} THEN "unknown"
                       ELSE color_hsv_ranges[SetMin(m)].name

\* A pixel in green and in yellow is green in the default table.
C4_Witness ==
    /\ kpc = "done"
    /\ InBounds(kx, ky, hsv)
    /\ color_hsv_ranges = DefaultRanges
    /\ Matching(hsv.px[<<ky, kx>>], color_hsv_ranges) = {2, 4}
    /\ color = "green"

\* The pairs the labeler's loop examines.
Pairs == 1..Min(Len(contours_list), Len(shape_labels))

RecordsAt(i) == {j \in 1..Len(results) : results[j].pos = i}

C6_OneRecordPerLargeContour ==
    (lpc = "done" /\ Len(contours_list) = Len(shape_labels)) =>
        /\ \A i \in 1..Len(contours_list) :
              Cardinality(RecordsAt(i))
              = IF Area2(contours_list[i]) >= 200 THEN 1 ELSE 0
        /\ \A j \in 1..Len(results) :
              /\ results[j].pos \in 1..Len(contours_list)
              /\ results[j].contour = contours_list[results[j].pos]
              /\ results[j].shape = shape_labels[results[j].pos]
        /\ \A j \in 1..Len(results) : \A k \in 1..Len(results) :
              j < k => results[j].pos < results[k].pos

C6_Witness ==
    /\ lpc = "done"
    /\ contours_list = << LSmall, LIn >>
    /\ shape_labels = << "circle", "other" >>
    /\ Len(results) = 1
    /\ results[1].contour = LIn
    /\ results[1].shape = "other"

\* C10: with lists of different lengths no exception is raised for it, the
\* loop examines the first min(len, len) pairs only, and nothing beyond
\* them reaches the result.
C10_ZipTruncates ==
    Len(contours_list) /= Len(shape_labels) =>
        /\ lerr \in {"none", "FileNotFoundError"}
        /\ lpc = "done" =>
              /\ lerr = "none"
              /\ li = Min(Len(contours_list), Len(shape_labels)) + 1
              /\ \A j \in 1..Len(results) : results[j].pos \in Pairs
              /\ \A i \in Pairs :
                    Area2(contours_list[i]) >= 200 => RecordsAt(i) /= {}

C10_Witness ==
    /\ lpc = "done"
    /\ contours_list = << LIn, LIn >>
    /\ shape_labels = << "circle" >>
    /\ Len(results) = 1

=============================================================================
